---- MODULE Spec2Model ----
(***************************************************************************)
(* Message envelope of packages/messaging/src/Message.ts: Header, Message, *)
(* Message.encode / Message.decode and their helpers encrypt, decrypt and  *)
(* associatedData, as a state machine of asynchronous calls.               *)
(*                                                                         *)
(* Representation.  An optional field (T | undefined) is a sequence of     *)
(* length 0 or 1.  A public key is a key id in Keys, NoKey when undefined; *)
(* the private key of a public key carries the same id.  Bytes are         *)
(* sequences of integers.  A JS string is a sequence of UTF-16 code units. *)
(***************************************************************************)
EXTENDS Integers, Sequences, FiniteSets, TLC

\* ------------------------------------------------------------------ bounds
NumKeys == 4
MaxLen == 1
MaxTampers == 1
ConcCalls == 2
MaxRotations == 1

\* two parties; party p's identity key is key p, the remaining keys are
\* pre-keys
Parties == {1, 2}
Keys == 1..NumKeys
IdentityKeyIds == Parties
PreKeyIds == Keys \ IdentityKeyIds
\* the values the nonce of an encryption is drawn from
Nonces == {1, 2}
SomeNonce == CHOOSE n \in Nonces : TRUE
NoKey == 0

None == <<>>
Some(x) == <<x>>

\* ------------------------------------------------------- text encoding
\* UTF-16 code units the plaintexts are made of: "a", a high surrogate
\* (U+D800), a low surrogate (U+DC00) and U+FEFF (byte order mark).
CodeUnits == {97, 55296, 56320, 65279}

RECURSIVE SeqsUpTo(_, _)
SeqsUpTo(S, n) ==
  IF n = 0 THEN {<<>>}
  ELSE LET shorter == SeqsUpTo(S, n - 1)
       IN shorter \cup {Append(s, x) : s \in {t \in shorter : Len(t) = n - 1}, x \in S}

Plaintexts == SeqsUpTo(CodeUnits, MaxLen)

IsHighSurrogate(c) == c >= 55296 /\ c <= 56319
IsLowSurrogate(c) == c >= 56320 /\ c <= 57343

\* a JS string as Unicode scalar values: an unpaired surrogate becomes U+FFFD
RECURSIVE ToScalarValues(_)
ToScalarValues(s) ==
  IF s = <<>> THEN <<>>
  ELSE IF IsHighSurrogate(s[1]) /\ Len(s) >= 2 /\ IsLowSurrogate(s[2])
       THEN <<65536 + (s[1] - 55296) * 1024 + (s[2] - 56320)>>
              \o ToScalarValues(SubSeq(s, 3, Len(s)))
  ELSE IF IsHighSurrogate(s[1]) \/ IsLowSurrogate(s[1])
       THEN <<65533>> \o ToScalarValues(Tail(s))
  ELSE <<s[1]>> \o ToScalarValues(Tail(s))

Utf8Bytes(cp) ==
  IF cp < 128 THEN <<cp>>
  ELSE IF cp < 2048 THEN <<192 + cp \div 64, 128 + (cp % 64)>>
  ELSE IF cp < 65536
       THEN <<224 + cp \div 4096, 128 + ((cp \div 64) % 64), 128 + (cp % 64)>>
  ELSE <<240 + cp \div 262144, 128 + ((cp \div 4096) % 64),
         128 + ((cp \div 64) % 64), 128 + (cp % 64)>>

RECURSIVE Utf8Encode(_)
Utf8Encode(cps) ==
  IF cps = <<>> THEN <<>> ELSE Utf8Bytes(cps[1]) \o Utf8Encode(Tail(cps))

\* new TextEncoder().encode(message)
TextEncode(s) == Utf8Encode(ToScalarValues(s))

IsCont(b, i) == i <= Len(b) /\ b[i] >= 128 /\ b[i] <= 191

\* UTF-8 bytes as scalar values; a byte that starts no sequence becomes U+FFFD
RECURSIVE Utf8Decode(_)
Utf8Decode(b) ==
  IF b = <<>> THEN <<>>
  ELSE IF b[1] < 128 THEN <<b[1]>> \o Utf8Decode(Tail(b))
  ELSE IF b[1] >= 194 /\ b[1] <= 223 /\ IsCont(b, 2)
       THEN <<(b[1] - 192) * 64 + (b[2] - 128)>> \o Utf8Decode(SubSeq(b, 3, Len(b)))
  ELSE IF b[1] >= 224 /\ b[1] <= 239 /\ IsCont(b, 2) /\ IsCont(b, 3)
       THEN <<(b[1] - 224) * 4096 + (b[2] - 128) * 64 + (b[3] - 128)>>
              \o Utf8Decode(SubSeq(b, 4, Len(b)))
  ELSE IF b[1] >= 240 /\ b[1] <= 244 /\ IsCont(b, 2) /\ IsCont(b, 3) /\ IsCont(b, 4)
       THEN <<(b[1] - 240) * 262144 + (b[2] - 128) * 4096
                + (b[3] - 128) * 64 + (b[4] - 128)>>
              \o Utf8Decode(SubSeq(b, 5, Len(b)))
  ELSE <<65533>> \o Utf8Decode(Tail(b))

RECURSIVE FromScalarValues(_)
FromScalarValues(cps) ==
  IF cps = <<>> THEN <<>>
  ELSE IF cps[1] >= 65536
       THEN <<55296 + (cps[1] - 65536) \div 1024, 56320 + ((cps[1] - 65536) % 1024)>>
              \o FromScalarValues(Tail(cps))
  ELSE <<cps[1]>> \o FromScalarValues(Tail(cps))

\* new TextDecoder().decode(bytes): UTF-8, not fatal, a leading BOM is dropped
TextDecode(b) ==
  LET cps == Utf8Decode(b)
  IN FromScalarValues(IF cps # <<>> /\ cps[1] = 65279 THEN Tail(cps) ELSE cps)

\* a string TextEncoder and TextDecoder carry unchanged: no unpaired
\* surrogate and no leading byte order mark
RECURSIVE WellFormedUtf16(_)
WellFormedUtf16(s) ==
  IF s = <<>> THEN TRUE
  ELSE IF IsHighSurrogate(s[1])
       THEN Len(s) >= 2 /\ IsLowSurrogate(s[2]) /\ WellFormedUtf16(SubSeq(s, 3, Len(s)))
  ELSE ~IsLowSurrogate(s[1]) /\ WellFormedUtf16(Tail(s))

\* ---------------------------------------------------------- key bundles
\* KeyBundle: the public keys of a party
KeyBundle(identityKey, preKey) == [identityKey |-> identityKey, preKey |-> preKey]

\* PrivateKeyBundle.getKeyBundle(): the public side of the identity key and
\* of the active pre-key
getKeyBundle(priv) == KeyBundle(priv.identityKey, priv.preKey)

\* PublicKey.matches(other)
matches(key, other) == key # NoKey /\ key = other

\* Diffie-Hellman of a private key with a public key: dh(a, B) = dh(b, A)
dh(private, public) ==
  IF private <= public THEN <<private, public>> ELSE <<public, private>>

\* PrivateKeyBundle.sharedSecret(peer, isRecipient): None when it throws
\* (a key it needs is missing)
sharedSecret(priv, peer, isRecipient) ==
  IF priv.identityKey = NoKey \/ priv.preKey = NoKey
       \/ peer.identityKey = NoKey \/ peer.preKey = NoKey
  THEN None
  ELSE LET dh1 == IF isRecipient THEN dh(priv.preKey, peer.identityKey)
                  ELSE dh(priv.identityKey, peer.preKey)
           dh2 == IF isRecipient THEN dh(priv.identityKey, peer.preKey)
                  ELSE dh(priv.preKey, peer.identityKey)
           dh3 == dh(priv.preKey, peer.preKey)
       IN Some(dh1 \o dh2 \o dh3)

\* the private bundles a party may hold: an active pre-key kept in the
\* list of pre-keys, or one of the defects decode checks for
PreKeyStates ==
  {[preKey |-> k, preKeys |-> <<k>>] : k \in PreKeyIds}
    \cup {[preKey |-> NoKey, preKeys |-> <<>>]}
    \cup {[preKey |-> NoKey, preKeys |-> <<k>>] : k \in PreKeyIds}
    \cup {[preKey |-> k, preKeys |-> <<>>] : k \in PreKeyIds}

PrivateKeyBundle(identityKey, pk) ==
  [identityKey |-> identityKey, preKey |-> pk.preKey, preKeys |-> pk.preKeys]

ValidPrivateKeyBundle(priv) ==
  /\ priv.identityKey # NoKey
  /\ priv.preKey # NoKey
  /\ \E i \in DOMAIN priv.preKeys : priv.preKeys[i] = priv.preKey

\* ------------------------------------------------------------ wire format
\* Tag-length-value encoding of the proto messages: a field is its number,
\* the length of its value, and the value; an absent field takes no bytes.
ProtoField(tag, value) == <<tag, Len(value)>> \o value

RECURSIVE ProtoParse(_)
\* the fields of a serialized message, in order; a truncated field has tag -1
ProtoParse(b) ==
  IF b = <<>> THEN <<>>
  ELSE IF Len(b) < 2 \/ b[2] > Len(b) - 2 THEN <<[tag |-> -1, value |-> <<>>]>>
  ELSE <<[tag |-> b[1], value |-> SubSeq(b, 3, 2 + b[2])]>>
         \o ProtoParse(SubSeq(b, 3 + b[2], Len(b)))

\* the value of the last field with this number, None when there is none
ProtoGet(fields, tag) ==
  LET at == {i \in DOMAIN fields : fields[i].tag = tag}
  IN IF at = {} THEN None
     ELSE Some(fields[CHOOSE i \in at : \A j \in at : j <= i].value)

\* proto.PublicKey: the key material, one byte
PublicKeyEncode(tag, key) == IF key = NoKey THEN <<>> ELSE ProtoField(tag, <<key>>)

PublicKeyDecode(opt) == IF opt = None \/ Len(opt[1]) # 1 THEN NoKey ELSE opt[1][1]

\* proto.KeyBundle.encode / decode: identityKey = 1, preKey = 2
KeyBundleEncode(kb) ==
  PublicKeyEncode(1, kb.identityKey) \o PublicKeyEncode(2, kb.preKey)

KeyBundleDecode(b) ==
  LET f == ProtoParse(b)
  IN KeyBundle(PublicKeyDecode(ProtoGet(f, 1)), PublicKeyDecode(ProtoGet(f, 2)))

KeyBundleOptEncode(tag, opt) ==
  IF opt = None THEN <<>> ELSE ProtoField(tag, KeyBundleEncode(opt[1]))

KeyBundleOptDecode(opt) == IF opt = None THEN None ELSE Some(KeyBundleDecode(opt[1]))

\* proto.Message_Header.encode / decode: sender = 1, recipient = 2
Message_HeaderEncode(h) ==
  KeyBundleOptEncode(1, h.sender) \o KeyBundleOptEncode(2, h.recipient)

Message_HeaderDecode(b) ==
  LET f == ProtoParse(b)
  IN [sender |-> KeyBundleOptDecode(ProtoGet(f, 1)),
      recipient |-> KeyBundleOptDecode(ProtoGet(f, 2))]

\* proto.Ciphertext: aes256GcmHkdfSha256 = 1, holding gcmNonce = 2 and
\* payload = 3
AesEncode(aes) == ProtoField(2, <<aes.gcmNonce>>) \o ProtoField(3, aes.payload)

AesDecode(b) ==
  LET f == ProtoParse(b)
      nonce == ProtoGet(f, 2)
      payload == ProtoGet(f, 3)
  IN [gcmNonce |-> IF nonce = None \/ Len(nonce[1]) # 1 THEN 0 ELSE nonce[1][1],
      payload |-> IF payload = None THEN <<>> ELSE payload[1]]

CiphertextEncode(c) ==
  IF c.aes256GcmHkdfSha256 = None THEN <<>>
  ELSE ProtoField(1, AesEncode(c.aes256GcmHkdfSha256[1]))

CiphertextDecode(b) ==
  LET aes == ProtoGet(ProtoParse(b), 1)
  IN [aes256GcmHkdfSha256 |-> IF aes = None THEN None ELSE Some(AesDecode(aes[1]))]

\* proto.Message.encode / decode: header = 1, ciphertext = 2
ProtoMessageEncode(m) ==
  (IF m.header = None THEN <<>> ELSE ProtoField(1, Message_HeaderEncode(m.header[1])))
    \o (IF m.ciphertext = None THEN <<>>
        ELSE ProtoField(2, CiphertextEncode(m.ciphertext[1])))

ProtoMessageDecode(b) ==
  LET f == ProtoParse(b)
      header == ProtoGet(f, 1)
      ciphertext == ProtoGet(f, 2)
  IN [header |-> IF header = None THEN None ELSE Some(Message_HeaderDecode(header[1])),
      ciphertext |-> IF ciphertext = None THEN None
                     ELSE Some(CiphertextDecode(ciphertext[1]))]

\* ------------------------------------------------------------ encryption
\* The payload of an AEAD ciphertext stands for the sealed box: the key and
\* associated data it was sealed under, the plaintext, and a last byte
\* that is TagIntact as long as no byte of the box has been altered.
TagIntact == 1

Seal(plain, secret, nonce, ad) ==
  secret \o <<nonce, Len(ad)>> \o ad \o plain \o <<TagIntact>>

\* encrypt(plain, secret, ad) of ./crypto/encryption, with the nonce it draws
encryptAead(plain, secret, ad, nonce) ==
  [aes256GcmHkdfSha256 |-> Some([gcmNonce |-> nonce,
                                 payload |-> Seal(plain, secret, nonce, ad)])]

\* decrypt(encrypted, secret, ad) of ./crypto/encryption: the plaintext
\* bytes, None when authentication fails
decryptAead(encrypted, secret, ad) ==
  LET aes == encrypted.aes256GcmHkdfSha256[1]
      box == aes.payload
      head == secret \o <<aes.gcmNonce, Len(ad)>> \o ad
  IN IF /\ Len(box) >= Len(head) + 1
        /\ SubSeq(box, 1, Len(head)) = head
        /\ box[Len(box)] = TagIntact
     THEN Some(SubSeq(box, Len(head) + 1, Len(box) - 1))
     ELSE None

\* ------------------------------------------------------ Header, Message
\* variant: a KeyBundle is made of a field whether it is there or not
HeaderOfEveryField(obj) ==
  [sender |-> Some(IF obj.sender # None
                   THEN KeyBundle(obj.sender[1].identityKey, obj.sender[1].preKey)
                   ELSE KeyBundle(NoKey, NoKey)),
   recipient |-> Some(IF obj.recipient # None
                      THEN KeyBundle(obj.recipient[1].identityKey,
                                     obj.recipient[1].preKey)
                      ELSE KeyBundle(NoKey, NoKey))]

\* new Header(obj): each present field becomes a KeyBundle
Header(obj) ==
  [sender |-> IF obj.sender # None
              THEN Some(KeyBundle(obj.sender[1].identityKey, obj.sender[1].preKey))
              ELSE None,
   recipient |-> IF obj.recipient # None
                 THEN Some(KeyBundle(obj.recipient[1].identityKey,
                                     obj.recipient[1].preKey))
                 ELSE None]

\* Header.toBytes / Header.fromBytes
HeaderToBytes(h) == Message_HeaderEncode(h)

HeaderFromBytes(b) == Header(Message_HeaderDecode(b))

\* new Ciphertext(obj)
Ciphertext(obj) == [aes256GcmHkdfSha256 |-> obj.aes256GcmHkdfSha256]

\* new Message(obj): decrypted is left undefined
Message(obj) ==
  [header |-> IF obj.header # None THEN Some(Header(obj.header[1])) ELSE None,
   ciphertext |-> IF obj.ciphertext # None THEN Some(Ciphertext(obj.ciphertext[1]))
                  ELSE None,
   decrypted |-> None]

\* variant: the decrypted text is written as a third field
toBytesWithDecrypted(msg) ==
  ProtoMessageEncode(msg)
    \o (IF msg.decrypted = None THEN <<>> ELSE ProtoField(3, msg.decrypted[1]))

\* Message.toBytes / Message.fromBytes
toBytes(msg) == ProtoMessageEncode(msg)

fromBytes(b) == Message(ProtoMessageDecode(b))

\* variant: the two bundles serialized in the order of their identity keys
associatedDataSorted(header) ==
  IF header.sender.identityKey <= header.recipient.identityKey
  THEN Message_HeaderEncode([sender |-> Some(header.sender),
                             recipient |-> Some(header.recipient)])
  ELSE Message_HeaderEncode([sender |-> Some(header.recipient),
                             recipient |-> Some(header.sender)])

\* variant: the sender is left out of the associated data
associatedDataRecipientOnly(header) ==
  Message_HeaderEncode([sender |-> None, recipient |-> Some(header.recipient)])

\* associatedData(header): the serialized header {sender, recipient}
associatedData(header) ==
  Message_HeaderEncode([sender |-> Some(header.sender),
                        recipient |-> Some(header.recipient)])

\* variant: decrypt passes the sender's role flag
decryptRoleAsSender == FALSE

\* variant: encrypt passes the recipient's role flag
encryptRoleAsRecipient == TRUE

\* the role flags passed to sharedSecret by encrypt and by decrypt
encryptRole == FALSE

decryptRole == TRUE

\* Message.encrypt, after its await: the associated data
encryptAD(sender, recipient) ==
  associatedData([sender |-> getKeyBundle(sender), recipient |-> recipient])

\* Message.decrypt, after its await: the associated data
decryptAD(sender, recipient) ==
  associatedData([sender |-> sender, recipient |-> getKeyBundle(recipient)])

\* Message.encode, after its await: the message it returns
encodeResult(sender, recipient, ciphertext, message) ==
  [Message([header |-> Some([sender |-> Some(getKeyBundle(sender)),
                             recipient |-> Some(recipient)]),
            ciphertext |-> Some(ciphertext)])
     EXCEPT !.decrypted = Some(message)]

\* Message.decode, after its await: the message it returns
decodeResult(message, bytes) ==
  [Message(message) EXCEPT !.decrypted = Some(TextDecode(bytes))]

\* variants: the checks of decode with one of them left out
failedCheckWithout(skip, message, recipient) ==
  IF message.header = None THEN "header"
  ELSE IF message.header[1].sender = None THEN "sender"
  ELSE IF message.header[1].recipient = None THEN "recipient"
  ELSE IF skip # "headerPreKey" /\ message.header[1].recipient[1].preKey = NoKey
       THEN "headerPreKey"
  ELSE IF recipient.preKey = NoKey THEN "localPreKey"
  ELSE IF skip # "localPreKeys" /\ Len(recipient.preKeys) = 0 THEN "localPreKeys"
  ELSE IF skip # "preKeyMatch"
            /\ ~matches(recipient.preKey, message.header[1].recipient[1].preKey)
       THEN "preKeyMatch"
  ELSE IF message.ciphertext = None
            \/ message.ciphertext[1].aes256GcmHkdfSha256 = None
       THEN "ciphertext"
  ELSE ""

failedCheckNoHeaderPreKey(message, recipient) ==
  failedCheckWithout("headerPreKey", message, recipient)

failedCheckNoInventory(message, recipient) ==
  failedCheckWithout("localPreKeys", message, recipient)

failedCheckNoMatch(message, recipient) ==
  failedCheckWithout("preKeyMatch", message, recipient)

\* variant: the stored pre-keys are looked at before the active pre-key
failedCheckInventoryFirst(message, recipient) ==
  IF message.header = None THEN "header"
  ELSE IF message.header[1].sender = None THEN "sender"
  ELSE IF message.header[1].recipient = None THEN "recipient"
  ELSE IF message.header[1].recipient[1].preKey = NoKey THEN "headerPreKey"
  ELSE IF Len(recipient.preKeys) = 0 THEN "localPreKeys"
  ELSE IF recipient.preKey = NoKey THEN "localPreKey"
  ELSE IF ~matches(recipient.preKey, message.header[1].recipient[1].preKey)
       THEN "preKeyMatch"
  ELSE IF message.ciphertext = None
            \/ message.ciphertext[1].aes256GcmHkdfSha256 = None
       THEN "ciphertext"
  ELSE ""

\* the checks of Message.decode on the parsed message and the local
\* recipient bundle, in the order of the code: the check that throws, ""
\* when every check passes
failedCheck(message, recipient) ==
  IF message.header = None THEN "header"
  ELSE IF message.header[1].sender = None THEN "sender"
  ELSE IF message.header[1].recipient = None THEN "recipient"
  ELSE IF message.header[1].recipient[1].preKey = NoKey THEN "headerPreKey"
  ELSE IF recipient.preKey = NoKey THEN "localPreKey"
  ELSE IF Len(recipient.preKeys) = 0 THEN "localPreKeys"
  ELSE IF ~matches(recipient.preKey, message.header[1].recipient[1].preKey)
       THEN "preKeyMatch"
  ELSE IF message.ciphertext = None
            \/ message.ciphertext[1].aes256GcmHkdfSha256 = None
       THEN "ciphertext"
  ELSE ""

Checks ==
  {"header", "sender", "recipient", "headerPreKey", "localPreKey", "localPreKeys",
   "preKeyMatch", "ciphertext"}

\* the message of the Error each check throws
errorMessage(check) ==
  CASE check = "header" -> "missing message header"
    [] check = "sender" -> "missing message sender"
    [] check = "recipient" -> "missing message recipient"
    [] check = "headerPreKey" -> "missing message recipient pre key"
    [] check = "localPreKey" -> "missing message recipient pre key"
    [] check = "localPreKeys" -> "missing pre key"
    [] check = "preKeyMatch" -> "recipient pre-key mismatch"
    [] check = "ciphertext" -> "missing message ciphertext"
    [] OTHER -> ""

\* failures of the collaborators: sharedSecret throws, decrypt throws
SecretFailure == "shared secret failure"

DecryptFailure == "decrypt failure"

\* ------------------------------------------------------------- tampering
\* What the network may do to a serialized message between encode and
\* decode: drop a field, replace a key of the header, exchange sender and
\* recipient, alter a byte of the ciphertext.
DropOps ==
  {"dropHeader", "dropSender", "dropRecipient", "dropRecipientPreKey",
   "dropSenderPreKey", "dropSenderIdentityKey",
   "dropCiphertext", "dropPayload"}

SetIdentityKeyOps == {"setSenderIdentityKey", "setRecipientIdentityKey"}

SetPreKeyOps == {"setSenderPreKey", "setRecipientPreKey"}

OtherOps == {"swapRoles", "flipPayload", "flipNonce"}

Tampers ==
  {[op |-> o, key |-> NoKey] : o \in DropOps \cup OtherOps}
    \cup {[op |-> o, key |-> k] : o \in SetIdentityKeyOps, k \in IdentityKeyIds}
    \cup {[op |-> o, key |-> k] : o \in SetPreKeyOps, k \in PreKeyIds}

HasSender(m) == m.header # None /\ m.header[1].sender # None

HasRecipient(m) == m.header # None /\ m.header[1].recipient # None

HasPayload(m) == m.ciphertext # None /\ m.ciphertext[1].aes256GcmHkdfSha256 # None

\* a byte of the sealed box altered: its tag no longer verifies
FlipTag(box) ==
  IF box = <<>> THEN box
  ELSE [box EXCEPT ![Len(box)] = IF @ = TagIntact THEN 0 ELSE TagIntact]

ApplyTamper(t, m) ==
  CASE t.op = "dropHeader" -> [m EXCEPT !.header = None]
    [] t.op = "dropCiphertext" -> [m EXCEPT !.ciphertext = None]
    [] t.op = "dropSender" /\ m.header # None ->
         [m EXCEPT !.header[1].sender = None]
    [] t.op = "dropRecipient" /\ m.header # None ->
         [m EXCEPT !.header[1].recipient = None]
    [] t.op = "dropRecipientPreKey" /\ HasRecipient(m) ->
         [m EXCEPT !.header[1].recipient[1].preKey = NoKey]
    [] t.op = "dropSenderPreKey" /\ HasSender(m) ->
         [m EXCEPT !.header[1].sender[1].preKey = NoKey]
    [] t.op = "dropSenderIdentityKey" /\ HasSender(m) ->
         [m EXCEPT !.header[1].sender[1].identityKey = NoKey]
    [] t.op = "dropPayload" /\ m.ciphertext # None ->
         [m EXCEPT !.ciphertext[1].aes256GcmHkdfSha256 = None]
    [] t.op = "setSenderIdentityKey" /\ HasSender(m) ->
         [m EXCEPT !.header[1].sender[1].identityKey = t.key]
    [] t.op = "setSenderPreKey" /\ HasSender(m) ->
         [m EXCEPT !.header[1].sender[1].preKey = t.key]
    [] t.op = "setRecipientIdentityKey" /\ HasRecipient(m) ->
         [m EXCEPT !.header[1].recipient[1].identityKey = t.key]
    [] t.op = "setRecipientPreKey" /\ HasRecipient(m) ->
         [m EXCEPT !.header[1].recipient[1].preKey = t.key]
    [] t.op = "swapRoles" /\ m.header # None ->
         [m EXCEPT !.header[1] = [sender |-> m.header[1].recipient,
                                  recipient |-> m.header[1].sender]]
    [] t.op = "flipPayload" /\ HasPayload(m) ->
         [m EXCEPT !.ciphertext[1].aes256GcmHkdfSha256[1].payload = FlipTag(@)]
    [] t.op = "flipNonce" /\ HasPayload(m) ->
         [m EXCEPT !.ciphertext[1].aes256GcmHkdfSha256[1].gcmNonce = @ + 1]
    [] OTHER -> m

RECURSIVE ApplyTampers(_, _)
ApplyTampers(ts, m) ==
  IF ts = <<>> THEN m ELSE ApplyTampers(Tail(ts), ApplyTamper(ts[1], m))

\* the tampers in some fixed order, and what may be done to one message: up
\* to MaxTampers different tampers, applied in that order
RECURSIVE SetToSeq(_)
SetToSeq(S) ==
  IF S = {} THEN <<>> ELSE LET x == CHOOSE y \in S : TRUE IN <<x>> \o SetToSeq(S \ {x})

TamperList == SetToSeq(Tampers)

\* the increasing sequences of at most k indices out of 1..n
RECURSIVE Increasing(_, _)
Increasing(n, k) ==
  IF k = 0 THEN {<<>>}
  ELSE LET shorter == Increasing(n, k - 1)
           longest == {t \in shorter : Len(t) = k - 1}
       IN shorter \cup
            {Append(x[1], x[2]) :
               x \in {y \in longest \X (1..n) : y[1] = <<>> \/ y[1][Len(y[1])] < y[2]}}

TamperSeqs ==
  {[i \in DOMAIN I |-> TamperList[I[i]]] : I \in Increasing(Len(TamperList), MaxTampers)}

\* ------------------------------------------------------------------ state
VARIABLES
  bundles,     \* the PrivateKeyBundle each party holds
  enc,         \* the calls of Message.encode
  dec,         \* the calls of Message.decode
  rotations,   \* how often a party has taken a new pre-key
  hdr          \* a Header on its way through toBytes and fromBytes

vars == <<bundles, enc, dec, rotations, hdr>>

Started(call) == call.pc # "idle"

Finished(call) == call.pc \in {"done", "failed"}

IdleEncode ==
  [pc |-> "idle", sender |-> 0, recipient |-> KeyBundle(NoKey, NoKey),
   message |-> <<>>, bytes |-> <<>>, secret |-> None, ad |-> <<>>,
   ciphertext |-> None, msg |-> None, error |-> ""]

IdleDecode ==
  [pc |-> "idle", recipient |-> 0, src |-> 0, bytes |-> <<>>,
   message |-> [header |-> None, ciphertext |-> None], check |-> "",
   secret |-> None, secretCalls |-> 0, decryptCalls |-> 0, ad |-> <<>>,
   plain |-> None, msg |-> None, error |-> ""]

IdleHeader == [pc |-> "idle", h |-> [sender |-> None, recipient |-> None],
               bytes |-> <<>>, back |-> None]

\* party 1 holds a valid bundle; party 2 holds any bundle
InitBundles ==
  {[p \in Parties |->
      PrivateKeyBundle(p, IF p = 1 THEN [preKey |-> 3, preKeys |-> <<3>>]
                          ELSE pk)] : pk \in PreKeyStates}

InitCalls(n) ==
  /\ bundles \in InitBundles
  /\ enc = [c \in 1..n |-> IdleEncode]
  /\ dec = [c \in 1..n |-> IdleDecode]
  /\ rotations = 0
  /\ hdr = IdleHeader

\* one call of encode and one of decode
Init == InitCalls(1)

\* calls start in the order of their numbers
NextToStart(calls, c) ==
  calls[c].pc = "idle" /\ (IF c = 1 THEN TRUE ELSE calls[c - 1].pc # "idle")

\* -------------------------------------------------------- Message.encode
\* encode up to the await in encrypt: the text is encoded and sharedSecret
\* is called on the sender's bundle
EncodeCall(c, s, r, m) ==
  /\ NextToStart(enc, c)
  /\ enc' = [enc EXCEPT ![c] =
       [@ EXCEPT !.pc = "awaitSecret", !.sender = s, !.recipient = r,
                 !.message = m, !.bytes = TextEncode(m),
                 !.secret = sharedSecret(bundles[s], r, encryptRole)]]
  /\ UNCHANGED <<bundles, dec, rotations, hdr>>

\* encrypt resumes with the secret: the associated data is built and the
\* AEAD encrypt is started with the nonce n it draws; a failed sharedSecret
\* fails the call
EncryptResume(c, n) ==
  /\ enc[c].pc = "awaitSecret"
  /\ \/ /\ enc[c].secret = None
        /\ enc' = [enc EXCEPT ![c] = [@ EXCEPT !.pc = "failed", !.error = SecretFailure]]
     \/ /\ enc[c].secret # None
        /\ LET ad == encryptAD(bundles[enc[c].sender], enc[c].recipient)
           IN enc' = [enc EXCEPT ![c] =
                [@ EXCEPT !.pc = "awaitEncrypt", !.ad = ad,
                          !.ciphertext =
                            Some(encryptAead(enc[c].bytes, enc[c].secret[1], ad, n))]]
  /\ UNCHANGED <<bundles, dec, rotations, hdr>>

\* encode resumes with the ciphertext: the message is built and returned
EncodeResume(c) ==
  /\ enc[c].pc = "awaitEncrypt"
  /\ enc' = [enc EXCEPT ![c] =
       [@ EXCEPT !.pc = "done",
                 !.msg = Some(encodeResult(bundles[enc[c].sender], enc[c].recipient,
                                           enc[c].ciphertext[1], enc[c].message))]]
  /\ UNCHANGED <<bundles, dec, rotations, hdr>>

\* -------------------------------------------------------- Message.decode
\* variant: sender kept in one place for all calls, so a call sees the sender
\* of the decode call that started last
sharedSender(call) ==
  LET started == {c \in DOMAIN dec : Started(dec[c]) /\ dec[c].check = ""}
      last == CHOOSE c \in started : \A x \in started : x <= c
  IN IF started = {} THEN Header(call.message.header[1]).sender[1]
     ELSE Header(dec[last].message.header[1]).sender[1]

\* const sender = new KeyBundle(message.header.sender), local to the call
localSender(call) == Header(call.message.header[1]).sender[1]

\* decode up to the await in decrypt: the bytes are parsed and checked; when
\* every check passes decrypt is entered and sharedSecret is called
DecodeCall(c, p, e, ts) ==
  LET bytes == toBytes(ApplyTampers(ts, enc[e].msg[1]))
      message == ProtoMessageDecode(bytes)
      check == failedCheck(message, bundles[p])
  IN /\ NextToStart(dec, c)
     /\ enc[e].pc = "done"
     /\ dec' = [dec EXCEPT ![c] =
          IF check # ""
          THEN [@ EXCEPT !.pc = "failed", !.recipient = p, !.src = e, !.bytes = bytes,
                         !.message = message, !.check = check,
                         !.error = errorMessage(check)]
          ELSE [@ EXCEPT !.pc = "awaitSecret", !.recipient = p, !.src = e, !.bytes = bytes,
                         !.message = message, !.secretCalls = 1,
                         !.secret = sharedSecret(bundles[p],
                                                 localSender([message |-> message]),
                                                 decryptRole)]]
     /\ UNCHANGED <<bundles, enc, rotations, hdr>>

\* decrypt resumes with the secret: the associated data is rebuilt and the
\* AEAD decrypt is started; a failed sharedSecret fails the call
DecryptResume(c) ==
  /\ dec[c].pc = "awaitSecret"
  /\ \/ /\ dec[c].secret = None
        /\ dec' = [dec EXCEPT ![c] = [@ EXCEPT !.pc = "failed", !.error = SecretFailure]]
     \/ /\ dec[c].secret # None
        /\ LET ad == decryptAD(localSender(dec[c]), bundles[dec[c].recipient])
           IN dec' = [dec EXCEPT ![c] =
                [@ EXCEPT !.pc = "awaitDecrypt", !.ad = ad, !.decryptCalls = 1,
                          !.plain = decryptAead(Ciphertext(dec[c].message.ciphertext[1]),
                                                dec[c].secret[1], ad)]]
  /\ UNCHANGED <<bundles, enc, rotations, hdr>>

\* variant: the failure of decrypt is not thrown on
decodeReturnUnchecked(call) ==
  [call EXCEPT !.pc = "done",
               !.msg = Some(decodeResult(call.message,
                                         IF call.plain = None THEN <<>>
                                         ELSE call.plain[1]))]

\* variant: a failure of decrypt is swallowed and the message returned
\* without a text
decodeReturnSwallowing(call) ==
  IF call.plain = None
  THEN [call EXCEPT !.pc = "done", !.msg = Some(Message(call.message))]
  ELSE [call EXCEPT !.pc = "done",
                    !.msg = Some(decodeResult(call.message, call.plain[1]))]

\* decode after its await on decrypt: a failure of decrypt is thrown on,
\* otherwise the message is built from the parsed bytes and returned
decodeReturn(call) ==
  IF call.plain = None
  THEN [call EXCEPT !.pc = "failed", !.error = DecryptFailure]
  ELSE [call EXCEPT !.pc = "done",
                    !.msg = Some(decodeResult(call.message, call.plain[1]))]

\* variant: a decode that succeeds uses up the pre-keys the recipient stores
DecodeResumeConsuming(c) ==
  /\ dec[c].pc = "awaitDecrypt"
  /\ dec' = [dec EXCEPT ![c] = decodeReturn(dec[c])]
  /\ bundles' = IF dec[c].plain = None THEN bundles
                ELSE [bundles EXCEPT ![dec[c].recipient].preKeys = <<>>]
  /\ UNCHANGED <<enc, rotations, hdr>>

\* decode resumes with the plaintext bytes, or with decrypt's failure
DecodeResume(c) ==
  /\ dec[c].pc = "awaitDecrypt"
  /\ dec' = [dec EXCEPT ![c] = decodeReturn(dec[c])]
  /\ UNCHANGED <<bundles, enc, rotations, hdr>>

\* ---------------------------------------------------------- specification
\* One encode and one decode, every plaintext and every tampering of the
\* delivery; the nonce is the same in every run.
\* the bundle a party publishes is what a sender passes as recipient
PublishedBundles == {getKeyBundle(bundles[q]) : q \in Parties}

Next ==
  \/ \E c \in DOMAIN enc, s \in Parties, r \in PublishedBundles, m \in Plaintexts :
       EncodeCall(c, s, r, m)
  \/ \E c \in DOMAIN enc : EncryptResume(c, SomeNonce)
  \/ \E c \in DOMAIN enc : EncodeResume(c)
  \/ \E c \in DOMAIN dec, p \in Parties, e \in DOMAIN enc, ts \in TamperSeqs :
       DecodeCall(c, p, e, ts)
  \/ \E c \in DOMAIN dec : DecryptResume(c)
  \/ \E c \in DOMAIN dec : DecodeResume(c)

Spec == Init /\ [][Next]_vars

\* ------------------------------------------------------- other activity
\* a party takes a new pre-key: it becomes the active one and joins the
\* stored ones
RotatePreKey(p, k) ==
  /\ rotations < MaxRotations
  /\ k # bundles[p].preKey
  /\ bundles' = [bundles EXCEPT ![p] = [@ EXCEPT !.preKey = k,
                                                 !.preKeys = Append(@, k)]]
  /\ rotations' = rotations + 1
  /\ UNCHANGED <<enc, dec, hdr>>

\* the text and the (untouched) delivery used where the calls interleave
SomeText == <<97>>

NoTamper == <<>>

\* one encode and one decode while parties take new pre-keys
NextRotate ==
  \/ \E c \in DOMAIN enc, s \in Parties, r \in PublishedBundles :
       EncodeCall(c, s, r, SomeText)
  \/ \E c \in DOMAIN enc, n \in Nonces : EncryptResume(c, n)
  \/ \E c \in DOMAIN enc : EncodeResume(c)
  \/ \E c \in DOMAIN dec, p \in Parties, e \in DOMAIN enc :
       DecodeCall(c, p, e, NoTamper)
  \/ \E c \in DOMAIN dec : DecryptResume(c)
  \/ \E c \in DOMAIN dec : DecodeResume(c)
  \/ \E p \in Parties, k \in PreKeyIds : RotatePreKey(p, k)

SpecRotate == Init /\ [][NextRotate]_vars

\* ConcCalls calls of encode and of decode, interleaved at their awaits
InitConc == InitCalls(ConcCalls)

NextConc ==
  \/ \E c \in DOMAIN enc, s \in Parties, r \in PublishedBundles :
       EncodeCall(c, s, r, SomeText)
  \/ \E c \in DOMAIN enc, n \in Nonces : EncryptResume(c, n)
  \/ \E c \in DOMAIN enc : EncodeResume(c)
  \/ \E c \in DOMAIN dec, p \in Parties, e \in DOMAIN enc :
       DecodeCall(c, p, e, NoTamper)
  \/ \E c \in DOMAIN dec : DecryptResume(c)
  \/ \E c \in DOMAIN dec : DecodeResume(c)

SpecConc == InitConc /\ [][NextConc]_vars

\* ------------------------------------------------- Header serialization
\* the headers there are: sender and recipient each absent or a key bundle,
\* whose keys are each absent or a key
OptionalBundles ==
  {None} \cup {Some(KeyBundle(i, k)) : i \in {NoKey} \cup Keys, k \in {NoKey} \cup Keys}

Headers == [sender : OptionalBundles, recipient : OptionalBundles]

\* h.toBytes()
HeaderToBytesCall(h) ==
  /\ hdr.pc = "idle"
  /\ hdr' = [hdr EXCEPT !.pc = "bytes", !.h = h, !.bytes = HeaderToBytes(h)]
  /\ UNCHANGED <<bundles, enc, dec, rotations>>

\* Header.fromBytes(bytes)
HeaderFromBytesCall ==
  /\ hdr.pc = "bytes"
  /\ hdr' = [hdr EXCEPT !.pc = "done", !.back = Some(HeaderFromBytes(hdr.bytes))]
  /\ UNCHANGED <<bundles, enc, dec, rotations>>

NextHeader ==
  \/ \E h \in Headers : HeaderToBytesCall(h)
  \/ HeaderFromBytesCall

SpecHeader == Init /\ [][NextHeader]_vars

\* ------------------------------------------------------------ properties
\* decode call d reads the output of encode call e, whatever was done to it
\* on the way
Reads(d, e) == Started(dec[d]) /\ dec[d].src = e /\ enc[e].pc = "done"

\* the decoding party holds a valid bundle and it is the one the sender
\* encoded for
RightRecipient(d, e) ==
  /\ ValidPrivateKeyBundle(bundles[dec[d].recipient])
  /\ enc[e].recipient = getKeyBundle(bundles[dec[d].recipient])

\* the bytes decode call d was given are the bytes encode call e produced
Untouched(d, e) == dec[d].bytes = toBytes(enc[e].msg[1])

Succeeds(d, text) ==
  /\ dec[d].pc # "failed"
  /\ dec[d].pc = "done" => dec[d].msg[1].decrypted = Some(text)

\* a string that UTF-8 encoding and decoding carry unchanged: no unpaired
\* surrogate, no byte order mark in front
IsByteOrderMark(c) == c = 65279

TextSafe(s) == WellFormedUtf16(s) /\ (s = <<>> \/ ~IsByteOrderMark(s[1]))

\* C1 (as claimed): for every valid sender bundle S, recipient bundle R and
\* every plaintext p, decode(R, encode(S, R.getKeyBundle(), p).toBytes())
\* succeeds and its decrypted field equals p.
C1_RoundTripAnyText ==
  \A d \in DOMAIN dec, e \in DOMAIN enc :
    (Reads(d, e) /\ Untouched(d, e) /\ RightRecipient(d, e)
       /\ ValidPrivateKeyBundle(bundles[enc[e].sender]))
      => Succeeds(d, enc[e].message)

\* C1 (amended): the round trip holds for every plaintext that is
\* well-formed UTF-16 and does not start with U+FEFF; then decode never
\* fails and its decrypted field equals p.
C1_RoundTrip ==
  \A d \in DOMAIN dec, e \in DOMAIN enc :
    (Reads(d, e) /\ Untouched(d, e) /\ RightRecipient(d, e)
       /\ ValidPrivateKeyBundle(bundles[enc[e].sender])
       /\ TextSafe(enc[e].message))
      => Succeeds(d, enc[e].message)

C1_Witness ==
  \E d \in DOMAIN dec, e \in DOMAIN enc :
    /\ Reads(d, e) /\ Untouched(d, e) /\ RightRecipient(d, e)
    /\ enc[e].sender # dec[d].recipient
    /\ enc[e].message # <<>> /\ TextSafe(enc[e].message)
    /\ dec[d].pc = "done"
    /\ dec[d].msg[1].decrypted = Some(enc[e].message)

\* the header and the ciphertext encode call e shipped
ShippedHeader(e) == enc[e].msg[1].header

ShippedCiphertext(e) == enc[e].msg[1].ciphertext

\* C2: if any part of the serialized header is altered before decode, decode
\* never returns a Message whose header differs from the header the sender
\* encoded.
C2_HeaderTamperDetected ==
  \A d \in DOMAIN dec, e \in DOMAIN enc :
    (Reads(d, e) /\ dec[d].pc = "done") => dec[d].msg[1].header = ShippedHeader(e)

PreKeyMismatch(d) ==
  /\ HasRecipient(dec[d].message)
  /\ dec[d].message.header[1].recipient[1].preKey # NoKey
  /\ bundles[dec[d].recipient].preKey # NoKey
  /\ bundles[dec[d].recipient].preKey # dec[d].message.header[1].recipient[1].preKey

MismatchError == "recipient pre-key mismatch"

NoCrypto(d) == dec[d].secretCalls = 0 /\ dec[d].decryptCalls = 0

\* C4 (as claimed): whenever the local active pre-key does not match the
\* pre-key named in header.recipient, decode fails with 'recipient pre-key
\* mismatch', without deriving a shared secret or calling decrypt.
C4_MismatchAlwaysReported ==
  \A d \in DOMAIN dec :
    (Started(dec[d]) /\ PreKeyMismatch(d))
      => dec[d].pc = "failed" /\ dec[d].error = MismatchError /\ NoCrypto(d)

\* C4 (amended): whenever the pre-keys do not match, decode fails without
\* deriving a shared secret or calling decrypt; the failure is 'recipient
\* pre-key mismatch' when the header names a sender and the local bundle
\* stores at least one pre-key.
C4_PreKeyMismatch ==
  \A d \in DOMAIN dec :
    (Started(dec[d]) /\ PreKeyMismatch(d))
      => /\ dec[d].pc = "failed" /\ dec[d].msg = None /\ NoCrypto(d)
         /\ (HasSender(dec[d].message) /\ bundles[dec[d].recipient].preKeys # <<>>)
              => dec[d].error = MismatchError

\* a mismatch in a message that is valid in every other part
C4_Witness ==
  \E d \in DOMAIN dec, e \in DOMAIN enc :
    /\ Reads(d, e) /\ Untouched(d, e) /\ PreKeyMismatch(d)
    /\ ValidPrivateKeyBundle(bundles[dec[d].recipient])
    /\ dec[d].pc = "failed" /\ dec[d].error = MismatchError

\* C5: each of header, header.sender, header.recipient,
\* header.recipient.preKey and the AEAD payload, removed alone from an
\* otherwise valid message, makes decode fail with the error of that field.
RemovedAlone(d, e, op) ==
  /\ Reads(d, e) /\ RightRecipient(d, e)
  /\ dec[d].bytes = toBytes(ApplyTamper([op |-> op, key |-> NoKey], enc[e].msg[1]))

FailsWith(d, error) ==
  dec[d].pc = "failed" /\ dec[d].error = error /\ dec[d].msg = None

C5_MissingFieldMatrix ==
  \A d \in DOMAIN dec, e \in DOMAIN enc :
    /\ RemovedAlone(d, e, "dropHeader") => FailsWith(d, "missing message header")
    /\ RemovedAlone(d, e, "dropSender") => FailsWith(d, "missing message sender")
    /\ RemovedAlone(d, e, "dropRecipient") => FailsWith(d, "missing message recipient")
    /\ RemovedAlone(d, e, "dropRecipientPreKey")
         => FailsWith(d, "missing message recipient pre key")
    /\ RemovedAlone(d, e, "dropPayload") => FailsWith(d, "missing message ciphertext")

C5_Witness ==
  \E d1 \in DOMAIN dec, e \in DOMAIN enc :
    /\ RemovedAlone(d1, e, "dropPayload")
    /\ FailsWith(d1, "missing message ciphertext")

\* C6: no two different checks of decode produce the same error, so the
\* failing check can be told from the error alone.
C6_DistinctErrors ==
  \A d \in DOMAIN dec :
    (dec[d].pc = "failed" /\ dec[d].check # "")
      => \A other \in Checks : errorMessage(other) = dec[d].error => other = dec[d].check

\* what the checks of decode require, in the words of the specification
AllChecksPass(message, recipient) ==
  /\ HasSender(message)
  /\ HasRecipient(message)
  /\ message.header[1].recipient[1].preKey # NoKey
  /\ recipient.preKey # NoKey
  /\ recipient.preKeys # <<>>
  /\ recipient.preKey = message.header[1].recipient[1].preKey
  /\ HasPayload(message)

\* C7: sharedSecret and decrypt are called only after every check has
\* passed; when a check fails decode fails with neither called and returns
\* no Message.
C7_FailClosed ==
  \A d \in DOMAIN dec :
    Started(dec[d]) =>
      IF AllChecksPass(ProtoMessageDecode(dec[d].bytes), bundles[dec[d].recipient])
      THEN dec[d].check = ""
      ELSE dec[d].pc = "failed" /\ dec[d].check # "" /\ NoCrypto(d) /\ dec[d].msg = None

C7_Witness ==
  \E d1 \in DOMAIN dec :
    /\ dec[d1].pc = "failed" /\ dec[d1].check = "localPreKeys" /\ NoCrypto(d1)
    /\ ~AllChecksPass(ProtoMessageDecode(dec[d1].bytes), bundles[dec[d1].recipient])

\* C9: for distinct key bundles A and B the associated data of (A, B)
\* differs from that of (B, A), and a message A encoded for B is not decoded
\* with sender and recipient exchanged.
RolesSwapped(d, e) ==
  /\ Reads(d, e)
  /\ dec[d].message.header # None
  /\ dec[d].message.header[1].sender = ShippedHeader(e)[1].recipient
  /\ dec[d].message.header[1].recipient = ShippedHeader(e)[1].sender

C9_DirectionSensitive ==
  /\ \A p, q \in Parties :
       LET A == getKeyBundle(bundles[p])
           B == getKeyBundle(bundles[q])
       IN A # B => associatedData([sender |-> A, recipient |-> B])
                     # associatedData([sender |-> B, recipient |-> A])
  /\ \A d \in DOMAIN dec, e \in DOMAIN enc :
       (RolesSwapped(d, e) /\ ShippedHeader(e)[1].sender # ShippedHeader(e)[1].recipient)
         => /\ dec[d].pc # "done"
            /\ dec[d].decryptCalls = 1 => dec[d].ad # enc[e].ad

C9_Witness ==
  \E d \in DOMAIN dec, e \in DOMAIN enc :
    /\ RolesSwapped(d, e)
    /\ ShippedHeader(e)[1].sender # ShippedHeader(e)[1].recipient
    /\ dec[d].recipient = enc[e].sender
    /\ dec[d].decryptCalls = 1
    /\ dec[d].pc = "failed" /\ dec[d].error = DecryptFailure

\* C8: the header of the Message encode returns serializes to exactly the
\* bytes passed to the AEAD encrypt as associated data, also when the
\* sender's bundle changes while encode is suspended.
C8_HeaderIsAssociatedData ==
  \A e \in DOMAIN enc :
    enc[e].pc = "done" => HeaderToBytes(enc[e].msg[1].header[1]) = enc[e].ad

\* encode and decode run alone, from the call's inputs to its outcome
NonceOf(ciphertext) == ciphertext.aes256GcmHkdfSha256[1].gcmNonce

Outcome(error, msg) == [error |-> error, msg |-> msg]

EncodeAlone(sender, recipient, message, nonce) ==
  LET secret == sharedSecret(sender, recipient, FALSE)
      ad == Message_HeaderEncode([sender |-> Some(getKeyBundle(sender)),
                                  recipient |-> Some(recipient)])
      shipped == [header |-> Some([sender |-> Some(getKeyBundle(sender)),
                                   recipient |-> Some(recipient)]),
                  ciphertext |-> Some(encryptAead(TextEncode(message), secret[1], ad, nonce)),
                  decrypted |-> Some(message)]
  IN IF secret = None THEN Outcome(SecretFailure, None) ELSE Outcome("", Some(shipped))

DecodeAlone(recipient, bytes) ==
  LET message == ProtoMessageDecode(bytes)
      check == failedCheck(message, recipient)
      sender == message.header[1].sender[1]
      secret == sharedSecret(recipient, sender, TRUE)
      ad == Message_HeaderEncode([sender |-> Some(sender),
                                  recipient |-> Some(getKeyBundle(recipient))])
      plain == decryptAead(message.ciphertext[1], secret[1], ad)
  IN IF check # "" THEN Outcome(errorMessage(check), None)
     ELSE IF secret = None THEN Outcome(SecretFailure, None)
     ELSE IF plain = None THEN Outcome(DecryptFailure, None)
     ELSE Outcome("", Some([header |-> message.header, ciphertext |-> message.ciphertext,
                            decrypted |-> Some(TextDecode(plain[1]))]))

\* C10: however the calls of encode and decode interleave at their awaits,
\* each call ends with the outcome it has when run alone.
C10_Independent ==
  /\ \A e \in DOMAIN enc :
       enc[e].pc = "done" =>
         Outcome(enc[e].error, enc[e].msg)
           = EncodeAlone(bundles[enc[e].sender], enc[e].recipient, enc[e].message,
                         NonceOf(enc[e].ciphertext[1]))
  /\ \A e \in DOMAIN enc :
       enc[e].pc = "failed" =>
         Outcome(enc[e].error, enc[e].msg)
           = EncodeAlone(bundles[enc[e].sender], enc[e].recipient, enc[e].message, 1)
  /\ \A d \in DOMAIN dec :
       Finished(dec[d]) =>
         Outcome(dec[d].error, dec[d].msg)
           = DecodeAlone(bundles[dec[d].recipient], dec[d].bytes)

\* a decode call that started after another one and returned while that one
\* was still suspended in decrypt, the two reading messages of different
\* senders
C10_Witness ==
  \E d1, d2 \in DOMAIN dec :
    /\ d1 < d2
    /\ dec[d1].pc = "awaitDecrypt" /\ dec[d2].pc = "done"
    /\ localSender(dec[d1]) # localSender(dec[d2])

\* the numbers of the fields in a serialized message
WireTags(b) == {ProtoParse(b)[i].tag : i \in DOMAIN ProtoParse(b)}

\* C11: decrypted is set only by a successful encode (to the plaintext) or a
\* successful decode (to the decrypted text); a Message from the constructor
\* or from fromBytes has decrypted unset, and toBytes writes header and
\* ciphertext only, never the decrypted value.
C11_DecryptedOnlyOnSuccess ==
  /\ \A e \in DOMAIN enc :
       /\ enc[e].pc # "done" => enc[e].msg = None
       /\ enc[e].pc = "done" =>
            /\ enc[e].msg[1].decrypted = Some(enc[e].message)
            /\ WireTags(toBytes(enc[e].msg[1])) \subseteq {1, 2}
            /\ toBytes(enc[e].msg[1]) = toBytes([enc[e].msg[1] EXCEPT !.decrypted = None])
            /\ fromBytes(toBytes(enc[e].msg[1])).decrypted = None
  /\ \A d \in DOMAIN dec :
       /\ dec[d].pc # "done" => dec[d].msg = None
       /\ Started(dec[d]) =>
            /\ fromBytes(dec[d].bytes).decrypted = None
            /\ Message(dec[d].message).decrypted = None
       /\ dec[d].pc = "done" =>
            /\ dec[d].plain # None
            /\ dec[d].msg[1].decrypted = Some(TextDecode(dec[d].plain[1]))
            /\ WireTags(toBytes(dec[d].msg[1])) \subseteq {1, 2}
            /\ fromBytes(toBytes(dec[d].msg[1])).decrypted = None

\* a decoded message with a text, whose bytes carry no text and give a
\* Message without one
C11_Witness ==
  \E d \in DOMAIN dec :
    /\ dec[d].pc = "done"
    /\ dec[d].msg[1].decrypted # None /\ dec[d].msg[1].decrypted[1] # <<>>
    /\ fromBytes(toBytes(dec[d].msg[1])).decrypted = None
    /\ fromBytes(toBytes(dec[d].msg[1])).header = dec[d].msg[1].header

\* C12: encode and decode, whether they succeed or fail, leave the key
\* bundles of sender and recipient (identity key, active pre-key, stored
\* pre-keys) unchanged: only a step of neither changes a bundle.
C12_KeysReadOnly ==
  [][(enc' # enc \/ dec' # dec) => bundles' = bundles]_vars

\* an encode that succeeded and a decode that failed, with the bundles as
\* they were at the start
C12_Witness ==
  \E e \in DOMAIN enc, d \in DOMAIN dec :
    /\ enc[e].pc = "done" /\ dec[d].pc = "failed"
    /\ rotations = 0 /\ bundles \in InitBundles

\* the steps of decode's validation in their fixed order
CheckOrder ==
  <<"header", "sender", "recipient", "headerPreKey", "localPreKey", "localPreKeys",
    "preKeyMatch", "ciphertext">>

\* every step a message and a local bundle do not satisfy, each taken on
\* its own
Defects(message, recipient) ==
  (IF message.header = None THEN {"header"} ELSE {})
    \cup (IF ~HasSender(message) THEN {"sender"} ELSE {})
    \cup (IF ~HasRecipient(message) THEN {"recipient"} ELSE {})
    \cup (IF ~HasRecipient(message) \/ message.header[1].recipient[1].preKey = NoKey
          THEN {"headerPreKey"} ELSE {})
    \cup (IF recipient.preKey = NoKey THEN {"localPreKey"} ELSE {})
    \cup (IF recipient.preKeys = <<>> THEN {"localPreKeys"} ELSE {})
    \cup (IF ~HasRecipient(message)
             \/ recipient.preKey # message.header[1].recipient[1].preKey
          THEN {"preKeyMatch"} ELSE {})
    \cup (IF ~HasPayload(message) THEN {"ciphertext"} ELSE {})

\* the earliest step in the order that is not satisfied, "" when all are
FirstDefect(message, recipient) ==
  LET failing == {i \in DOMAIN CheckOrder : CheckOrder[i] \in Defects(message, recipient)}
  IN IF failing = {} THEN ""
     ELSE CheckOrder[CHOOSE i \in failing : \A j \in failing : i <= j]

FlagsAsAgreed ==
  /\ \A e \in DOMAIN enc :
       Started(enc[e]) =>
         enc[e].secret = sharedSecret(bundles[enc[e].sender], enc[e].recipient, FALSE)
  /\ \A d \in DOMAIN dec :
       dec[d].secretCalls = 1 =>
         dec[d].secret = sharedSecret(bundles[dec[d].recipient], localSender(dec[d]), TRUE)

\* decode call d has decoded the untouched output of encode call e
CorrectlyDecoded(d, e) ==
  Reads(d, e) /\ Untouched(d, e) /\ RightRecipient(d, e) /\ dec[d].pc = "done"

\* decrypt of the same message fails when decode derives its secret with
\* the flag false
DecodeWithOtherFlagFails(d) ==
  LET secret == sharedSecret(bundles[dec[d].recipient], localSender(dec[d]), FALSE)
  IN secret # None =>
       decryptAead(Ciphertext(dec[d].message.ciphertext[1]), secret[1], dec[d].ad) = None

\* decrypt fails on the message encode produces when it derives its secret
\* with the flag true
EncodeWithOtherFlagFails(d, e) ==
  LET secret == sharedSecret(bundles[enc[e].sender], enc[e].recipient, TRUE)
  IN secret # None =>
       decryptAead(encryptAead(enc[e].bytes, secret[1], enc[e].ad,
                               NonceOf(enc[e].ciphertext[1])),
                   dec[d].secret[1], dec[d].ad) = None

\* C14 (as claimed): encode derives its secrets with the flag false and
\* decode with the flag true, and if either side used the other flag,
\* decoding an otherwise correct message would fail.
C14_OtherFlagAlwaysFails ==
  /\ FlagsAsAgreed
  /\ \A d \in DOMAIN dec, e \in DOMAIN enc :
       CorrectlyDecoded(d, e)
         => DecodeWithOtherFlagFails(d) /\ EncodeWithOtherFlagFails(d, e)

\* C14 (amended): encode derives its secrets with the flag false and decode
\* with the flag true; with the other flag on either side, decoding an
\* otherwise correct message fails unless sender and recipient hold the
\* same key bundle.
C14_FlagConvention ==
  /\ FlagsAsAgreed
  /\ \A d \in DOMAIN dec, e \in DOMAIN enc :
       (CorrectlyDecoded(d, e) /\ getKeyBundle(bundles[enc[e].sender]) # enc[e].recipient)
         => DecodeWithOtherFlagFails(d) /\ EncodeWithOtherFlagFails(d, e)

C14_Witness ==
  \E d \in DOMAIN dec, e \in DOMAIN enc :
    /\ CorrectlyDecoded(d, e)
    /\ getKeyBundle(bundles[enc[e].sender]) # enc[e].recipient
    /\ sharedSecret(bundles[dec[d].recipient], localSender(dec[d]), FALSE) # None
    /\ sharedSecret(bundles[dec[d].recipient], localSender(dec[d]), FALSE) # dec[d].secret
    /\ DecodeWithOtherFlagFails(d) /\ EncodeWithOtherFlagFails(d, e)

\* C15: for a Header h with sender and recipient populated,
\* Header.fromBytes(h.toBytes()) is a Header equal to h, and for every Header
\* the round trip keeps sender and recipient present or absent as they were.
C15_HeaderRoundTrip ==
  hdr.pc = "done" =>
    /\ (hdr.h.sender # None /\ hdr.h.recipient # None) => hdr.back[1] = hdr.h
    /\ hdr.back[1].sender = None <=> hdr.h.sender = None
    /\ hdr.back[1].recipient = None <=> hdr.h.recipient = None

\* a header with a sender and no recipient, come back so
C15_Witness ==
  /\ hdr.pc = "done"
  /\ hdr.h.sender # None /\ hdr.h.sender[1].identityKey # NoKey
  /\ hdr.h.recipient = None
  /\ hdr.bytes # <<>>
  /\ hdr.back[1].sender = hdr.h.sender /\ hdr.back[1].recipient = None

\* the serialization of the sender in the header decode call d returns and
\* of the key bundle of the private bundle it was called with
LocalView(d) ==
  Message_HeaderEncode([sender |-> dec[d].msg[1].header[1].sender,
                        recipient |-> Some(getKeyBundle(bundles[dec[d].recipient]))])

\* C16: whenever decode succeeds, the associated data the ciphertext was
\* encrypted under is the serialization of (header.sender as received, the
\* local recipient's getKeyBundle()), so the sender in the returned header
\* is the sender the encryptor authenticated.
C16_AuthenticatesLocalBundle ==
  \A d \in DOMAIN dec, e \in DOMAIN enc :
    (Reads(d, e) /\ dec[d].pc = "done")
      => /\ enc[e].ad = LocalView(d)
         /\ dec[d].msg[1].header[1].sender = Message_HeaderDecode(enc[e].ad).sender

\* a decode that succeeds on a header whose recipient is not the local
\* bundle
C16_Witness ==
  \E d \in DOMAIN dec, e \in DOMAIN enc :
    /\ Reads(d, e) /\ dec[d].pc = "done"
    /\ dec[d].msg[1].header[1].recipient # Some(getKeyBundle(bundles[dec[d].recipient]))
    /\ enc[e].ad = LocalView(d)

\* the pre-key decode call d checked against the header before its await,
\* and the recipient pre-key in the associated data it built after it
CheckedPreKey(d) == dec[d].message.header[1].recipient[1].preKey

UsedPreKey(d) == Message_HeaderDecode(dec[d].ad).recipient[1].preKey

====
